---- MODULE Spec2Model ----
(***************************************************************************)
(* Price cache / merge / fallback / canonical build (algo/data/prices.py)  *)
(* and the vectorised backtest (algo/backtest/engine_fast.py).             *)
(*                                                                         *)
(* A DataFrame is a record [cols, rows]: cols is the set of column names,  *)
(* rows the sequence of bars in index order.  A bar is [date, close]: the  *)
(* date is its index value, close is a token standing for the bar's        *)
(* numeric payload ("NaN" when the close cell is missing).                 *)
(***************************************************************************)
EXTENDS Integers, Sequences, FiniteSets, TLC

VARIABLES
    cache,      \* (provider, asset_key) -> raw cache file
    artifact,   \* the canonical ohlcv.parquet file
    upd,        \* the running _choose_provider_and_update call
    bld,        \* the running export_canonical_ohlcv call
    dirs,       \* provider directories under raw_prices that exist
    calls,      \* top-level calls made so far
    mrg,        \* merge_prices applied to drawn inputs
    bt,         \* run_backtest_fast_daily applied to drawn inputs
    cn,         \* _canonicalize_ohlcv applied to drawn frames
    pth         \* raw_cache_path / write_cache / read_cache calls on drawn keys

vars == <<cache, artifact, upd, bld, dirs, calls, mrg, bt, cn, pth>>

---------------------------------------------------------------------------
(* Bounds *)

MaxDate == 2        \* calendar dates are 1..MaxDate
MaxRows == 2        \* rows in one provider response
MaxCalls == 2       \* top-level update / export calls in one behaviour
NDates == 3         \* dates on the backtest's price axis

Dates == 1..MaxDate
CloseValues == {"x", "y"}
NaN == "NaN"

BaseCols == {"open", "high", "low", "close", "volume"}
AdjCol == "adj_close"

Bars == [date : Dates, close : CloseValues]
RawRows == [date : Dates, close : CloseValues \cup {NaN}]

---------------------------------------------------------------------------
(* Sequence helpers *)

Range(s) == {s[i] : i \in 1..Len(s)}

RemoveAt(s, i) == [j \in 1..(Len(s) - 1) |-> IF j < i THEN s[j] ELSE s[j + 1]]

Prefix(s, k) == [j \in 1..k |-> s[j]]

SeqsUpTo(S, n) == UNION {[1..k -> S] : k \in 0..n}

DatesOf(rows) == {rows[i].date : i \in 1..Len(rows)}

\* Index.is_monotonic_increasing: non-decreasing index values
IsMonotonic(rows) == \A i \in 1..Len(rows) : \A j \in i..Len(rows) : rows[i].date <= rows[j].date

\* strictly increasing index: sorted and unique
IsSortedUnique(rows) == \A i \in 1..Len(rows) : \A j \in (i + 1)..Len(rows) : rows[i].date < rows[j].date

---------------------------------------------------------------------------
(* pandas primitives used by prices.py *)

(* Every arrangement of rows in non-decreasing date order. *)
RECURSIVE DateOrderings(_)
DateOrderings(rows) ==
    IF rows = <<>> THEN {<<>>}
    ELSE LET n == Len(rows)
             least == {i \in 1..n : \A j \in 1..n : rows[i].date <= rows[j].date}
         IN UNION {{<<rows[i]>> \o t : t \in DateOrderings(RemoveAt(rows, i))} : i \in least}

(* df.sort_index() with its defaults (kind="quicksort").  pandas returns   *)
(* the frame as it is when the index is already monotonic; otherwise it    *)
(* argsorts the index with an algorithm that is not stable, so rows with   *)
(* equal dates may come out in any relative order.  The result is the set  *)
(* of frames a build can produce.                                          *)
SortIndex(rows) ==
    IF IsMonotonic(rows) THEN {rows} ELSE DateOrderings(rows)

(* df[~df.index.duplicated(keep="last")] *)
RECURSIVE DropDuplicatedKeepLast(_)
DropDuplicatedKeepLast(rows) ==
    IF rows = <<>> THEN <<>>
    ELSE LET rest == DropDuplicatedKeepLast(Tail(rows))
         IN IF Head(rows).date \in DatesOf(Tail(rows)) THEN rest ELSE <<Head(rows)>> \o rest

\* faulty variant: rows without a close are kept
DropNaClose_keep(rows) == rows

(* out.dropna(subset=["close"]) *)
RECURSIVE DropNaClose(_)
DropNaClose(rows) ==
    IF rows = <<>> THEN <<>>
    ELSE IF Head(rows).close = NaN THEN DropNaClose(Tail(rows))
         ELSE <<Head(rows)>> \o DropNaClose(Tail(rows))

Frame(cols, rows) == [none |-> FALSE, cols |-> cols, rows |-> rows]

\* Python's None where a DataFrame is expected
None == [none |-> TRUE, cols |-> {}, rows |-> <<>>]

---------------------------------------------------------------------------
(* merge_prices(existing, new): the set of frames it can return *)

SortDedup(rows) == {DropDuplicatedKeepLast(s) : s \in SortIndex(rows)}

merge_prices(existing, new) ==
    LET newSorted == SortDedup(new.rows)
    IN IF existing = None
       THEN {Frame(new.cols, r) : r \in newSorted}
       ELSE UNION {{Frame(existing.cols \cup new.cols, m) :
                        m \in SortDedup(existing.rows \o r)} : r \in newSorted}

---------------------------------------------------------------------------
(* Instrument registry (symbols/registry.py).  Asset keys are sequences of *)
(* characters so that the file-name conversion can act on them.            *)

KeySpy == <<"s", "p", "y">>
KeyFx == <<"e", "/", "u">>
KeyUnknown == <<"z">>

\* AssetFile._by_key: key -> Asset.identifiers (the identifier names)
Registry == (KeySpy :> {"stooq", "yahoo"}) @@ (KeyFx :> {"isin"})

\* [a.key for a in reg.assets]
list_asset_keys == <<KeySpy, KeyFx>>

CallKeys == {KeySpy, KeyFx, KeyUnknown}

\* AssetFile.get raises KeyError for a key that is not in _by_key
KnownKey(key) == key \in DOMAIN Registry

\* faulty variant: every provider counts as resolvable
has_identifier_always(key, identifier) == TRUE

\* has_identifier(key, identifier), for a known key
has_identifier(key, identifier) == identifier \in Registry[key]

\* get_identifier(key, identifier) succeeds (otherwise KeyError)
get_identifier_ok(key, identifier) == KnownKey(key) /\ identifier \in Registry[key]

---------------------------------------------------------------------------
(* Cache files *)

Providers == {"stooq", "yahoo"}

UnsafeChars == {"/", "\\", ":", "*", "?", "\"", "<", ">", "|"}

\* str.replace(old, new) for a one-character old
Replace(str, old, new) == [i \in DOMAIN str |-> IF str[i] = old THEN new ELSE str[i]]

\* faulty variant: the colon is left in the file name
_asset_key_to_filename_colon(asset_key) ==
    Replace(Replace(Replace(Replace(Replace(Replace(Replace(Replace(
        asset_key, "/", "_"), "\\", "_"), "*", "_"), "?", "_"), "\"", "_"), "<", "_"), ">", "_"), "|", "_")

_asset_key_to_filename(asset_key) ==
    Replace(Replace(Replace(Replace(Replace(Replace(Replace(Replace(Replace(
        asset_key, "/", "_"), "\\", "_"), ":", "_"), "*", "_"), "?", "_"), "\"", "_"),
        "<", "_"), ">", "_"), "|", "_")

ParquetSuffix == <<".", "p", "a", "r", "q", "u", "e", "t">>

\* raw_cache_path(provider, asset_key): the path it returns, as its
\* components below settings.data_dir (the mkdir is in the calling actions)
raw_cache_path(provider, asset_key) ==
    <<"raw_prices", provider, _asset_key_to_filename(asset_key) \o ParquetSuffix>>

CachePaths == {raw_cache_path(p, k) : p \in Providers, k \in CallKeys}

NoFile == [exists |-> FALSE, torn |-> FALSE, cols |-> {}, rows |-> <<>>]

WholeFile(cols, rows) == [exists |-> TRUE, torn |-> FALSE, cols |-> cols, rows |-> rows]

TornFile(cols, rows) == [exists |-> TRUE, torn |-> TRUE, cols |-> cols, rows |-> rows]

(* out.to_parquet(path) writes the file in place.  w is what happens to    *)
(* the call: "ok" it completes; "fail" it raises before the file is        *)
(* opened; "torn" it raises, or the process is stopped, after the file was *)
(* opened for writing and k row(s) were flushed, no footer.                *)
WriteFaults == {"ok", "fail", "torn"}

to_parquet(file, cols, rows, w) ==
    CASE w = "ok" -> {[ok |-> TRUE, err |-> "", file |-> WholeFile(cols, rows)]}
      [] w = "fail" -> {[ok |-> FALSE, err |-> "OSError", file |-> file]}
      [] OTHER -> {[ok |-> FALSE, err |-> "OSError", file |-> TornFile(cols, Prefix(rows, k))] :
                      k \in 0..(IF Len(rows) = 0 THEN 0 ELSE Len(rows) - 1)}

\* read_cache(provider, asset_key) on the file at its path
read_cache(file) ==
    IF ~file.exists THEN {[ok |-> TRUE, err |-> "", df |-> None]}
    ELSE IF file.torn THEN {[ok |-> FALSE, err |-> "ArrowInvalid", df |-> None]}
    ELSE {[ok |-> TRUE, err |-> "", df |-> Frame(file.cols, r)] : r \in SortDedup(file.rows)}

\* write_cache(provider, asset_key, df) on the file at its path
write_cache(file, df, w) ==
    UNION {to_parquet(file, df.cols, out, w) : out \in SortDedup(df.rows)}

---------------------------------------------------------------------------
(* Provider clients.  A response is what the provider sends back:          *)
(* kind "error" the HTTP call or the download raises; "no_table" (stooq)   *)
(* the body is not a CSV with a Date column; "table" a table of rows, adj  *)
(* telling whether it has an "Adj Close" column.                           *)

StooqResponses ==
    [kind : {"error", "no_table"}, rows : {<<>>}, adj : {FALSE}]
        \cup [kind : {"table"}, rows : SeqsUpTo(RawRows, MaxRows), adj : {FALSE}]

YahooResponses ==
    [kind : {"error"}, rows : {<<>>}, adj : {FALSE}]
        \cup [kind : {"table"}, rows : SeqsUpTo(RawRows, MaxRows), adj : BOOLEAN]

FetchFail(e) == [ok |-> FALSE, err |-> e, df |-> None]
FetchOk(df) == [ok |-> TRUE, err |-> "", df |-> df]

fetch_stooq_daily(asset_key, resp) ==
    IF ~get_identifier_ok(asset_key, "stooq") THEN {FetchFail("KeyError")}
    ELSE IF resp.kind = "error" THEN {FetchFail("HTTPError")}
    ELSE IF resp.kind = "no_table" THEN {FetchFail("KeyError")}
    ELSE {FetchOk(Frame(BaseCols, DropNaClose(s))) : s \in SortIndex(resp.rows)}

fetch_yahoo_daily(asset_key, resp) ==
    IF ~get_identifier_ok(asset_key, "yahoo") THEN {FetchFail("KeyError")}
    ELSE IF resp.kind = "error" THEN {FetchFail("HTTPError")}
    ELSE IF resp.rows = <<>> THEN {FetchFail("ValueError")}
    ELSE {FetchOk(Frame(IF resp.adj THEN BaseCols \cup {AdjCol} ELSE BaseCols, DropNaClose(s))) :
              s \in SortIndex(resp.rows)}

\* the response holds at least one row with a close
Usable(resp) == resp.kind = "table" /\ \E i \in 1..Len(resp.rows) : resp.rows[i].close # NaN

---------------------------------------------------------------------------
(* update_cache_<provider>(asset_key): read, fetch, merge, write.  The     *)
(* result is [ok, err, file, df, fetched]: file is the cache file after    *)
(* the call, df the returned frame, fetched whether the provider was       *)
(* called.  w is what happens to the to_parquet call of write_cache.       *)

UpdFail(e, file, fetched) == [ok |-> FALSE, err |-> e, file |-> file, df |-> None, fetched |-> fetched]

update_with(fetched_set, file, w) ==
    UNION {IF ~rd.ok THEN {UpdFail(rd.err, file, FALSE)}
           ELSE UNION {IF ~fr.ok THEN {UpdFail(fr.err, file, TRUE)}
                       ELSE UNION {{IF wr.ok
                                    THEN [ok |-> TRUE, err |-> "", file |-> wr.file,
                                          df |-> merged, fetched |-> TRUE]
                                    ELSE UpdFail(wr.err, wr.file, TRUE) :
                                        wr \in write_cache(file, merged, w)} :
                                   merged \in merge_prices(rd.df, fr.df)} :
                       fr \in fetched_set} :
           rd \in read_cache(file)}

update_cache_stooq(asset_key, file, resp, w) ==
    update_with(fetch_stooq_daily(asset_key, resp), file, w)

update_cache_yahoo(asset_key, file, resp, w) ==
    update_with(fetch_yahoo_daily(asset_key, resp), file, w)

\* update_cache(provider, asset_key)
update_cache(provider, asset_key, file, resp, w) ==
    IF provider = "stooq" THEN update_cache_stooq(asset_key, file, resp, w)
    ELSE IF provider = "yahoo" THEN update_cache_yahoo(asset_key, file, resp, w)
    ELSE {UpdFail("ValueError", file, FALSE)}

ResponsesOf(provider) ==
    IF provider = "stooq" THEN StooqResponses
    ELSE IF provider = "yahoo" THEN YahooResponses
    ELSE {[kind |-> "error", rows |-> <<>>, adj |-> FALSE]}

---------------------------------------------------------------------------
(* _choose_provider_and_update(asset_key, provider_priority), one action   *)
(* per iteration of its loop.  upd records the call: its arguments, the    *)
(* loop position idx, last_err, and what the call has done so far          *)
(* (attempts: the update_cache calls made, in order; changed: the          *)
(* providers whose cache file was modified; usable: whether the response   *)
(* of the last attempt held a row with a close; had_file: whether the      *)
(* last attempt found a cache file).                                       *)

UpdIdle ==
    [pc |-> "idle", caller |-> "none", key |-> <<>>, prio |-> <<>>, idx |-> 1,
     attempts |-> <<>>, changed |-> {}, last_err |-> "", err |-> "", provider |-> "",
     usable |-> FALSE, had_file |-> FALSE, df |-> None]

\* the export_canonical_ohlcv call: its arguments, loop position, frames,
\* and the artifact as it was when the call began
BldIdle ==
    [pc |-> "idle", universe |-> <<>>, prio |-> <<>>, idx |-> 1, frames |-> <<>>,
     before |-> NoFile, err |-> "", failed_at |-> 0]

UpdStart(caller, key, prio) ==
    [UpdIdle EXCEPT !.pc = "loop", !.caller = caller, !.key = key, !.prio = prio]

PriorityLists ==
    {<<>>, <<"stooq", "yahoo">>, <<"yahoo", "stooq">>, <<"isin", "stooq", "yahoo">>}

BuildRunning == bld.pc \in {"loop", "wait"}

\* a top-level call of update(instrument, provider_priority)
Update ==
    /\ upd.pc # "loop"
    /\ ~BuildRunning
    /\ calls < MaxCalls
    /\ \E key \in CallKeys, prio \in PriorityLists : upd' = UpdStart("none", key, prio)
    /\ bld' = BldIdle
    /\ calls' = calls + 1
    /\ UNCHANGED <<cache, artifact, dirs, mrg, bt, cn, pth>>

\* has_identifier raises KeyError (AssetFile.get); it is outside the try
UnknownKey ==
    /\ upd.pc = "loop"
    /\ upd.idx <= Len(upd.prio)
    /\ ~KnownKey(upd.key)
    /\ upd' = [upd EXCEPT !.pc = "raised", !.err = "KeyError"]
    /\ UNCHANGED <<cache, artifact, bld, dirs, calls, mrg, bt, cn, pth>>

\* if not has_identifier(asset_key, provider): continue
SkipProvider ==
    /\ upd.pc = "loop"
    /\ upd.idx <= Len(upd.prio)
    /\ KnownKey(upd.key)
    /\ ~has_identifier(upd.key, upd.prio[upd.idx])
    /\ upd' = [upd EXCEPT !.idx = @ + 1]
    /\ UNCHANGED <<cache, artifact, bld, dirs, calls, mrg, bt, cn, pth>>

\* what one update_cache(provider, asset_key) call can do, over every
\* provider response and every fate of the write: r is the call's result,
\* usable whether the provider was called and answered with a usable row
AttemptOutcomes(provider, asset_key, file) ==
    UNION {UNION {{[r |-> r, usable |-> r.fetched /\ Usable(resp)] :
                      r \in update_cache(provider, asset_key, file, resp, w)} :
                  w \in WriteFaults} :
           resp \in ResponsesOf(provider)}

\* try: df = update_cache(provider, asset_key); return provider, df
\* except Exception as e: last_err = e
AttemptProvider ==
    /\ upd.pc = "loop"
    /\ upd.idx <= Len(upd.prio)
    /\ KnownKey(upd.key)
    /\ has_identifier(upd.key, upd.prio[upd.idx])
    /\ LET p == upd.prio[upd.idx]
           path == raw_cache_path(p, upd.key)
           file == IF p \in Providers THEN cache[path] ELSE NoFile
       IN \E a \in AttemptOutcomes(p, upd.key, file) :
            /\ cache' = IF p \in Providers THEN [cache EXCEPT ![path] = a.r.file] ELSE cache
            /\ dirs' = IF p \in Providers THEN dirs \cup {p} ELSE dirs
            /\ upd' = [upd EXCEPT
                         !.attempts = Append(@, [provider |-> p, ok |-> a.r.ok, fetched |-> a.r.fetched]),
                         !.changed = IF a.r.file # file THEN @ \cup {p} ELSE @,
                         !.usable = a.usable,
                         !.had_file = file.exists,
                         !.pc = IF a.r.ok THEN "returned" ELSE "loop",
                         !.idx = IF a.r.ok THEN @ ELSE @ + 1,
                         !.provider = IF a.r.ok THEN p ELSE "",
                         !.df = a.r.df,
                         !.last_err = IF a.r.ok THEN @ ELSE a.r.err]
    /\ UNCHANGED <<artifact, bld, calls, mrg, bt, cn, pth>>

\* raise RuntimeError(f"Failed for '{asset_key}'. Last error: {last_err}")
Exhausted ==
    /\ upd.pc = "loop"
    /\ upd.idx > Len(upd.prio)
    /\ upd' = [upd EXCEPT !.pc = "raised", !.err = "RuntimeError"]
    /\ UNCHANGED <<cache, artifact, bld, dirs, calls, mrg, bt, cn, pth>>

---------------------------------------------------------------------------
(* export_canonical_ohlcv(asset_keys, provider_priority)                   *)

\* _canonicalize_ohlcv(df): the columns missing from df (KeyError if any)
canon_missing(df) == BaseCols \ df.cols

\* out[cols + ["adj_close"]] on one row, after out["adj_close"] = out["close"]
\* where df had no such column: the cells of the six columns that the row
\* represents are kept, any other column is dropped
CanonRow(df, r) ==
    LET kept == (DOMAIN r) \cap ({"date", AdjCol} \cup BaseCols)
    IN [c \in (IF AdjCol \in df.cols THEN kept ELSE kept \cup {AdjCol}) |->
           IF c = AdjCol /\ AdjCol \notin df.cols THEN r["close"] ELSE r[c]]

\* faulty variant: adj_close is always copied from close
_canonicalize_ohlcv_overwrite(df) ==
    [cols |-> BaseCols \cup {AdjCol},
     rows |-> [i \in 1..Len(df.rows) |->
                 [c \in ((DOMAIN df.rows[i]) \cap ({"date"} \cup BaseCols)) \cup {AdjCol} |->
                     IF c = AdjCol THEN df.rows[i]["close"] ELSE df.rows[i][c]]],
     adj_from_close |-> TRUE]

\* _canonicalize_ohlcv(df) when nothing is missing; adj_from_close is
\* whether the adj_close column was copied from close
_canonicalize_ohlcv(df) ==
    [cols |-> BaseCols \cup {AdjCol},
     rows |-> [i \in 1..Len(df.rows) |-> CanonRow(df, df.rows[i])],
     adj_from_close |-> AdjCol \notin df.cols]

RECURSIVE SortedSeqOf(_)
SortedSeqOf(S) ==
    IF S = {} THEN <<>>
    ELSE LET m == CHOOSE x \in S : \A y \in S : x <= y
         IN <<m>> \o SortedSeqOf(S \ {m})

CellAt(rows, d) ==
    IF d \in DatesOf(rows) THEN (CHOOSE r \in Range(rows) : r.date = d).close ELSE NaN

\* pd.concat(frames, axis=1).sort_index(): outer join on the dates; a row
\* holds one cell per instrument, NaN where the instrument has no bar
concat_axis1(frames) ==
    LET ds == SortedSeqOf(UNION {DatesOf(frames[i].rows) : i \in 1..Len(frames)})
    IN [cols |-> UNION {{<<frames[i].key, c>> : c \in frames[i].cols} : i \in 1..Len(frames)},
        rows |-> [n \in 1..Len(ds) |->
                     [date |-> ds[n],
                      close |-> [i \in 1..Len(frames) |-> CellAt(frames[i].rows, ds[n])]]]]

ExportInputs ==
    {[given |-> FALSE, keys |-> <<>>]}
        \cup {[given |-> TRUE, keys |-> u] : u \in {<<>>, <<KeySpy>>}}

\* a top-level call of export_canonical_ohlcv
Export ==
    /\ upd.pc # "loop"
    /\ ~BuildRunning
    /\ calls < MaxCalls
    /\ \E keys \in ExportInputs, prio \in PriorityLists :
         bld' = [BldIdle EXCEPT
                   !.pc = "loop",
                   !.universe = IF keys.given THEN keys.keys ELSE list_asset_keys,
                   !.prio = IF prio = <<>> THEN <<"stooq", "yahoo">> ELSE prio,
                   !.before = artifact]
    /\ upd' = UpdIdle
    /\ calls' = calls + 1
    /\ UNCHANGED <<cache, artifact, dirs, mrg, bt, cn, pth>>

\* for key in asset_keys: _provider, df = _choose_provider_and_update(...)
ExportCallUpdate ==
    /\ bld.pc = "loop"
    /\ bld.idx <= Len(bld.universe)
    /\ upd' = UpdStart("build", bld.universe[bld.idx], bld.prio)
    /\ bld' = [bld EXCEPT !.pc = "wait"]
    /\ UNCHANGED <<cache, artifact, dirs, calls, mrg, bt, cn, pth>>

\* faulty variant: the frames gathered so far are persisted when the build aborts
ExportAbort_partial ==
    /\ bld.pc = "wait"
    /\ upd.pc = "raised"
    /\ bld' = [bld EXCEPT !.pc = "raised", !.err = upd.err, !.failed_at = bld.idx]
    /\ artifact' = IF bld.frames = <<>> THEN artifact
                   ELSE WholeFile(concat_axis1(bld.frames).cols, concat_axis1(bld.frames).rows)
    /\ UNCHANGED <<cache, upd, dirs, calls, mrg, bt, cn, pth>>

\* the update raised: the exception leaves export_canonical_ohlcv
ExportAbort ==
    /\ bld.pc = "wait"
    /\ upd.pc = "raised"
    /\ bld' = [bld EXCEPT !.pc = "raised", !.err = upd.err, !.failed_at = bld.idx]
    /\ UNCHANGED <<cache, artifact, upd, dirs, calls, mrg, bt, cn, pth>>

\* canon = _canonicalize_ohlcv(df); frames.append(canon)
ExportCanonicalize ==
    /\ bld.pc = "wait"
    /\ upd.pc = "returned"
    /\ bld' = IF canon_missing(upd.df) # {}
              THEN [bld EXCEPT !.pc = "raised", !.err = "KeyError", !.failed_at = bld.idx]
              ELSE [bld EXCEPT
                      !.pc = "loop",
                      !.idx = @ + 1,
                      !.frames = Append(@, [key |-> upd.key] @@ _canonicalize_ohlcv(upd.df))]
    /\ UNCHANGED <<cache, artifact, upd, dirs, calls, mrg, bt, cn, pth>>

\* out = pd.concat(frames, axis=1).sort_index(); out.to_parquet(path)
ExportWrite ==
    /\ bld.pc = "loop"
    /\ bld.idx > Len(bld.universe)
    /\ IF bld.frames = <<>>
       THEN /\ bld' = [bld EXCEPT !.pc = "raised", !.err = "ValueError"]
            /\ UNCHANGED artifact
       ELSE LET out == concat_axis1(bld.frames)
            IN \E w \in WriteFaults : \E r \in to_parquet(artifact, out.cols, out.rows, w) :
                 /\ artifact' = r.file
                 /\ bld' = IF r.ok THEN [bld EXCEPT !.pc = "done"]
                           ELSE [bld EXCEPT !.pc = "raised", !.err = r.err]
    /\ UNCHANGED <<cache, upd, dirs, calls, mrg, bt, cn, pth>>

---------------------------------------------------------------------------
(* Idle values of the parts a specification does not exercise *)

MrgIdle == [pc |-> "off"]
BtIdle == [pc |-> "off"]
CnIdle == [pc |-> "off"]
PthIdle == [pc |-> "off"]

CacheInit ==
    /\ cache = [f \in CachePaths |-> NoFile]
    /\ artifact = NoFile
    /\ dirs = {}
    /\ upd = UpdIdle
    /\ bld = BldIdle
    /\ calls = 0

Init ==
    /\ CacheInit
    /\ mrg = MrgIdle
    /\ bt = BtIdle
    /\ cn = CnIdle
    /\ pth = PthIdle

Next ==
    \/ Update
    \/ UnknownKey
    \/ SkipProvider
    \/ AttemptProvider
    \/ Exhausted
    \/ Export
    \/ ExportCallUpdate
    \/ ExportAbort
    \/ ExportCanonicalize
    \/ ExportWrite

Spec == Init /\ [][Next]_vars

---------------------------------------------------------------------------
(* run_backtest_fast_daily (backtest/engine_fast.py).  Numbers are exact   *)
(* rationals [n, d] in lowest terms with d > 0; NaN is [n |-> 0, d |-> 0]. *)
(* The price table is a function from the dates 1..NDates, so it is held   *)
(* in date order (prices.sort_index() leaves it as it is); every cell has  *)
(* a price.                                                                *)

RECURSIVE Gcd(_, _)
Gcd(a, b) == IF b = 0 THEN a ELSE Gcd(b, a % b)

Abs(x) == IF x < 0 THEN -x ELSE x

Rat(n, d) ==
    LET g == Gcd(Abs(n), Abs(d))
        sgn == IF d < 0 THEN -1 ELSE 1
    IN [n |-> sgn * (n \div g), d |-> sgn * (d \div g)]

NaNum == [n |-> 0, d |-> 0]
Zero == [n |-> 0, d |-> 1]
One == [n |-> 1, d |-> 1]

IsNa(x) == x.d = 0

\* float arithmetic: NaN in, NaN out
RatAdd(x, y) == IF IsNa(x) \/ IsNa(y) THEN NaNum ELSE Rat(x.n * y.d + y.n * x.d, x.d * y.d)
RatMul(x, y) == IF IsNa(x) \/ IsNa(y) THEN NaNum ELSE Rat(x.n * y.n, x.d * y.d)

Instruments == {"A", "B"}
\* A takes any path over three price levels; B stays flat or alternates
PricePathsA == [1..NDates -> {100, 110, 121}]
PricePathsB == {[d \in 1..NDates |-> 1], [d \in 1..NDates |-> 1 + (d % 2)]}
WeightValues == {0, 1}
AxisDates == 1..NDates

\* prices.loc[pd.to_datetime(start_date):] -- the dates kept (start 1: all)
ClipDates(start) == {d \in AxisDates : d >= start}

\* prices.pct_change(): no return on the first date of the table
pct_change(prices, dates, d, i) ==
    IF d - 1 \notin dates THEN NaNum ELSE Rat(prices[d][i] - prices[d - 1][i], prices[d - 1][i])

\* weights_by_day.reindex(index=prices.index).fillna(0.0)
\*               .reindex(columns=prices.columns).fillna(0.0)
reindex_fill(weights, d, i) ==
    IF d \in DOMAIN weights /\ i \in DOMAIN weights[d] THEN Rat(weights[d][i], 1) ELSE Zero

\* faulty variant: the weights are not shifted
shift1_none(weights, dates, d, i) == reindex_fill(weights, d, i)

\* w.shift(1).fillna(0.0): the row of the date before, 0 on the first date
shift1(weights, dates, d, i) ==
    IF d - 1 \notin dates THEN Zero ELSE reindex_fill(weights, d - 1, i)

\* Series.sum over the instruments, NaN cells skipped (0 when all are NaN)
RECURSIVE SumSkipNa(_, _)
SumSkipNa(cells, S) ==
    IF S = {} THEN Zero
    ELSE LET i == CHOOSE x \in S : TRUE
             rest == SumSkipNa(cells, S \ {i})
         IN IF IsNa(cells[i]) THEN rest ELSE RatAdd(cells[i], rest)

\* port_rets = (rets * w).sum(axis=1), as date -> value
port_rets(prices, weights, dates) ==
    [d \in dates |->
        SumSkipNa([i \in Instruments |->
                      RatMul(pct_change(prices, dates, d, i), shift1(weights, dates, d, i))],
                  Instruments)]

\* port_rets.dropna(): the dates that stay, in order
dropna(series) == SortedSeqOf({d \in DOMAIN series : ~IsNa(series[d])})

\* (1.0 + port_rets).cumprod()
RECURSIVE CumProd(_, _, _)
CumProd(series, ds, n) ==
    IF n = 0 THEN One ELSE RatMul(CumProd(series, ds, n - 1), RatAdd(One, series[ds[n]]))

\* the equity curve: a sequence of [date, value]
run_backtest_fast_daily(prices, weights, start) ==
    LET dates == ClipDates(start)
        pr == port_rets(prices, weights, dates)
        kept == dropna(pr)
    IN [n \in 1..Len(kept) |-> [date |-> kept[n], ret |-> pr[kept[n]], value |-> CumProd(pr, kept, n)]]

\* the weights table with the row of date t replaced by zeros
ZeroRow(weights, t) ==
    [d \in DOMAIN weights |-> IF d = t THEN [i \in DOMAIN weights[d] |-> 0] ELSE weights[d]]

\* a weights table has a row for every date, or stops one date early
WeightTables ==
    UNION {[D -> [Instruments -> WeightValues]] : D \in {AxisDates, 1..(NDates - 1)}}

PriceTables == {[d \in AxisDates |-> [A |-> a[d], B |-> b[d]]] : a \in PricePathsA, b \in PricePathsB}

BtInit ==
    /\ CacheInit
    /\ mrg = MrgIdle
    /\ cn = CnIdle
    /\ pth = PthIdle
    /\ bt \in [pc : {"drawn"}, prices : PriceTables, weights : WeightTables, start : {1, 2},
               t : {0}, equity : {<<>>}, equity_zeroed : {<<>>}]

\* run the backtest on the drawn tables, and again with the weight row of
\* a date t zeroed
BtRun ==
    /\ bt.pc = "drawn"
    /\ \E t \in ClipDates(bt.start) :
         bt' = [bt EXCEPT
                  !.pc = "done",
                  !.t = t,
                  !.equity = run_backtest_fast_daily(bt.prices, bt.weights, bt.start),
                  !.equity_zeroed = run_backtest_fast_daily(bt.prices, ZeroRow(bt.weights, t), bt.start)]
    /\ UNCHANGED <<cache, artifact, upd, bld, dirs, calls, mrg, cn, pth>>

BtNext == BtRun

SpecBacktest == BtInit /\ [][BtNext]_vars

---------------------------------------------------------------------------
(* Claims about the fallback controller, the cache and the build (Spec)    *)

\* the instrument has a symbol for the provider, read off the registry
Resolvable(key, provider) == key \in DOMAIN Registry /\ provider \in Registry[key]

RECURSIVE ResolvableOf(_, _)
ResolvableOf(key, prio) ==
    IF prio = <<>> THEN <<>>
    ELSE IF Resolvable(key, Head(prio)) THEN <<Head(prio)>> \o ResolvableOf(key, Tail(prio))
         ELSE ResolvableOf(key, Tail(prio))

\* entries of provider_priority the loop has dealt with
Processed ==
    IF upd.pc = "returned" THEN upd.idx
    ELSE IF upd.pc = "raised" /\ upd.err = "KeyError" THEN 0
    ELSE upd.idx - 1

AttemptOrder ==
    upd.pc # "idle" =>
        /\ [i \in 1..Len(upd.attempts) |-> upd.attempts[i].provider]
               = ResolvableOf(upd.key, Prefix(upd.prio, Processed))
        /\ \A i \in 1..(Len(upd.attempts) - 1) : ~upd.attempts[i].ok
        /\ \A i \in 1..Len(upd.attempts) :
               upd.attempts[i].fetched => Resolvable(upd.key, upd.attempts[i].provider)
        /\ upd.pc = "returned" =>
               /\ upd.attempts # <<>>
               /\ upd.attempts[Len(upd.attempts)].ok
               /\ upd.provider = upd.attempts[Len(upd.attempts)].provider
               /\ upd.provider = upd.prio[upd.idx]
        /\ upd.pc \in {"loop", "raised"} => \A i \in 1..Len(upd.attempts) : ~upd.attempts[i].ok

\* a step that logs no update_cache call touches no cache file or directory
OnlyAttemptsTouchCache ==
    upd'.attempts = upd.attempts \/ upd'.attempts = <<>> => cache' = cache /\ dirs' = dirs

(* C1: providers are attempted strictly in the order of provider_priority; *)
(* a provider without a resolvable symbol is skipped with no fetch and no  *)
(* cache access; the provider returned is the earliest one in the list     *)
(* that has a symbol and whose update completes without error, and no      *)
(* provider after it is attempted.                                         *)
C1_ProvidersInPriorityOrder == []AttemptOrder /\ [][OnlyAttemptsTouchCache]_vars

\* one provider skipped, one attempted and failed, the third returned
C1_Witness ==
    /\ upd.pc = "returned"
    /\ upd.idx = 3
    /\ Len(upd.attempts) = 2
    /\ upd.provider = "yahoo"

(* C2: a per-instrument update is all-or-nothing against the cache: when   *)
(* it fails no provider's file for the instrument differs from before the  *)
(* call, when it succeeds only the returned provider's file may differ.    *)
C2_UpdateAllOrNothing ==
    /\ Cardinality(upd.changed) <= 1
    /\ upd.pc = "raised" => upd.changed = {}
    /\ upd.pc = "returned" => upd.changed \subseteq {upd.provider}

(* C5: every existing cache file holds a series whose dates are strictly   *)
(* increasing, with no duplicate date, and in which no bar lacks a close.  *)
C5_PriceSeriesInvariant ==
    \A f \in CachePaths :
        cache[f].exists =>
            /\ IsSortedUnique(cache[f].rows)
            /\ \A i \in 1..Len(cache[f].rows) : cache[f].rows[i].close # NaN

\* a second update has merged into a cache file and left two bars in it
C5_Witness ==
    /\ calls = 2
    /\ upd.pc = "returned"
    /\ upd.had_file
    /\ upd.changed # {}
    /\ \E f \in CachePaths : cache[f].exists /\ ~cache[f].torn /\ Len(cache[f].rows) = 2

(* C6: a cache write is never partial: after every step each cache file    *)
(* holds either a complete series or exactly the content it had before.    *)
C6_CacheWriteNeverPartial ==
    [][\A f \in CachePaths :
          \/ cache'[f] = cache[f]
          \/ cache'[f].exists /\ ~cache'[f].torn /\ IsSortedUnique(cache'[f].rows)]_vars

(* C7: the canonical build is all-or-nothing across the universe: while    *)
(* the build is running, and after it aborted because the update or the    *)
(* canonicalization of an instrument failed, the artifact is exactly as it *)
(* was before the call; once written, every instrument of the universe has *)
(* been updated and canonicalized.                                         *)
C7_BuildAllOrNothing ==
    /\ BuildRunning \/ (bld.pc = "raised" /\ bld.failed_at > 0) => artifact = bld.before
    /\ artifact # bld.before =>
           /\ bld.idx = Len(bld.universe) + 1
           /\ [i \in 1..Len(bld.frames) |-> bld.frames[i].key] = bld.universe

\* an earlier build wrote the artifact; this one aborted at its second
\* instrument, after the first had been updated and canonicalized
C7_Witness ==
    /\ bld.pc = "raised"
    /\ bld.failed_at = 2
    /\ Len(bld.frames) = 1
    /\ artifact.exists

(* C10: a fetch never succeeds on a response with no usable row: an update *)
(* returns only from an attempt whose response held a row with a close.    *)
C10_NoUsableRowNeverReturns == upd.pc = "returned" => upd.usable

(* C11: an update of an instrument that has no resolvable symbol under any *)
(* provider of provider_priority (an unregistered key and an empty list    *)
(* included) ends by raising the exhaustion error (RuntimeError), having   *)
(* made no update_cache call and changed no cache file.                    *)
C11_NoSymbolFailsExhausted ==
    (upd.pc \in {"returned", "raised"} /\ ResolvableOf(upd.key, upd.prio) = <<>>) =>
        /\ upd.pc = "raised"
        /\ upd.err = "RuntimeError"
        /\ upd.attempts = <<>>
        /\ upd.changed = {}

---------------------------------------------------------------------------
(* SpecCanon: _canonicalize_ohlcv on drawn frames.  Here a row holds one   *)
(* cell per column of its frame: close and adj_close cells are drawn, the  *)
(* cell of any other column is a token named after the column.             *)

ExtraCol == "dividends"
AdjValues == CloseValues \cup {NaN}

CanonCols == {C \cup A : C \in SUBSET BaseCols, A \in SUBSET {AdjCol, ExtraCol}}

CellRow(C, d, cl, ad) ==
    [c \in C \cup {"date"} |->
        IF c = "date" THEN d
        ELSE IF c = "close" THEN cl
        ELSE IF c = AdjCol THEN ad
        ELSE c]

CellRows(C) == {CellRow(C, d, cl, ad) : d \in Dates, cl \in CloseValues, ad \in AdjValues}

\* frames as a fetcher or the cache hands them over: dates strictly increasing
CanonInputs ==
    UNION {{Frame(C, r) : r \in {s \in SeqsUpTo(CellRows(C), MaxRows) : IsSortedUnique(s)}} :
           C \in CanonCols}

CanonInit ==
    /\ CacheInit
    /\ mrg = MrgIdle
    /\ bt = BtIdle
    /\ pth = PthIdle
    /\ cn \in [pc : {"drawn"}, df : CanonInputs, out : {None}, err : {""}, missing : {{}}]

\* canon = _canonicalize_ohlcv(df)
Canonicalize ==
    /\ cn.pc = "drawn"
    /\ cn' = IF canon_missing(cn.df) # {}
             THEN [cn EXCEPT !.pc = "raised", !.err = "KeyError", !.missing = canon_missing(cn.df)]
             ELSE [cn EXCEPT !.pc = "done", !.out = _canonicalize_ohlcv(cn.df)]
    /\ UNCHANGED <<cache, artifact, upd, bld, dirs, calls, mrg, bt, pth>>

CanonNext == Canonicalize

SpecCanon == CanonInit /\ [][CanonNext]_vars

CanonFields == {"open", "high", "low", "close", "volume", "adj_close"}

(* C12: canonicalizing a series that has the five base columns gives a     *)
(* series with exactly the six columns open, high, low, close, volume,     *)
(* adj_close on the same dates, each base cell unchanged, adj_close equal  *)
(* to close on every bar when the source had no adj_close column and to    *)
(* the source's cell otherwise; a series missing a base column fails with  *)
(* the schema error (KeyError) listing exactly the missing columns, and no *)
(* frame is produced.                                                      *)
C12_Canonicalization ==
    /\ cn.pc \in {"done", "raised"} => (cn.pc = "done" <=> BaseCols \subseteq cn.df.cols)
    /\ cn.pc = "done" =>
          /\ cn.out.cols = CanonFields
          /\ Len(cn.out.rows) = Len(cn.df.rows)
          /\ \A i \in 1..Len(cn.df.rows) :
                /\ DOMAIN cn.out.rows[i] = CanonFields \cup {"date"}
                /\ cn.out.rows[i]["date"] = cn.df.rows[i]["date"]
                /\ \A c \in BaseCols : cn.out.rows[i][c] = cn.df.rows[i][c]
                /\ cn.out.rows[i]["adj_close"] =
                      IF "adj_close" \in cn.df.cols THEN cn.df.rows[i]["adj_close"]
                      ELSE cn.df.rows[i]["close"]
    /\ cn.pc = "raised" =>
          /\ cn.err = "KeyError"
          /\ cn.missing = {c \in BaseCols : c \notin cn.df.cols}
          /\ cn.missing # {}
          /\ cn.out = None

\* both cases of adj_close on a canonicalized bar: the source gave a value
\* that differs from close
C12_Witness ==
    /\ cn.pc = "done"
    /\ "adj_close" \in cn.df.cols
    /\ \E i \in 1..Len(cn.df.rows) : cn.df.rows[i]["adj_close"] # cn.df.rows[i]["close"]

---------------------------------------------------------------------------
(* SpecPath: raw_cache_path, write_cache and read_cache called with drawn  *)
(* providers and asset keys.  pth records the last call and, per           *)
(* (provider, asset_key), the frame the last completed write_cache stored  *)
(* for it.                                                                 *)

KeyUnderscore == <<"e", "_", "u">>

\* asset keys: plain, with each of the characters the conversion replaces
PathKeys ==
    {KeySpy, KeyFx, KeyUnderscore}
        \cup {<<c>> : c \in UnsafeChars \cup {"_", "."}}

PathFiles == {raw_cache_path(p, k) : p \in Providers, k \in PathKeys}

\* the keys write_cache is called with: a plain one and two whose file
\* names the conversion makes equal
WriteKeys == {KeySpy, KeyFx, KeyUnderscore}

\* frames handed to write_cache: one bar
PathFrames == {Frame(BaseCols, <<[date |-> 1, close |-> c]>>) : c \in CloseValues}

PathInit ==
    /\ cache = [f \in PathFiles |-> NoFile]
    /\ artifact = NoFile
    /\ dirs = {}
    /\ upd = UpdIdle
    /\ bld = BldIdle
    /\ calls = 0
    /\ mrg = MrgIdle
    /\ bt = BtIdle
    /\ cn = CnIdle
    /\ pth = [pc |-> "idle", provider |-> "", key |-> <<>>, path |-> <<>>,
              last |-> [pk \in {} |-> None], got |-> [ok |-> TRUE, err |-> "", df |-> None]]

\* raw_cache_path(provider, asset_key)
PathCall ==
    /\ calls < MaxCalls
    /\ \E p \in Providers, k \in PathKeys :
         /\ dirs' = dirs \cup {p}
         /\ pth' = [pth EXCEPT !.pc = "called", !.provider = p, !.key = k,
                                !.path = raw_cache_path(p, k)]
    /\ calls' = calls + 1
    /\ UNCHANGED <<cache, artifact, upd, bld, mrg, bt, cn>>

\* write_cache(provider, asset_key, df)
PathWrite ==
    /\ calls < MaxCalls
    /\ \E p \in Providers, k \in WriteKeys, df \in PathFrames, w \in WriteFaults :
         LET path == raw_cache_path(p, k)
         IN \E r \in write_cache(cache[path], df, w) :
              /\ dirs' = dirs \cup {p}
              /\ cache' = [cache EXCEPT ![path] = r.file]
              /\ pth' = [pth EXCEPT
                           !.pc = IF r.ok THEN "written" ELSE "write_raised",
                           !.provider = p, !.key = k, !.path = path,
                           !.last = IF r.ok
                                    THEN [pk \in (DOMAIN @) \cup {<<p, k>>} |->
                                             IF pk = <<p, k>> THEN Frame(r.file.cols, r.file.rows)
                                             ELSE @[pk]]
                                    ELSE @]
    /\ calls' = calls + 1
    /\ UNCHANGED <<artifact, upd, bld, mrg, bt, cn>>

\* read_cache(provider, asset_key)
PathRead ==
    /\ calls < MaxCalls
    /\ \E p \in Providers, k \in PathKeys :
         LET path == raw_cache_path(p, k)
         IN \E r \in read_cache(cache[path]) :
              /\ dirs' = dirs \cup {p}
              /\ pth' = [pth EXCEPT !.pc = "read", !.provider = p, !.key = k,
                                     !.path = path, !.got = r]
    /\ calls' = calls + 1
    /\ UNCHANGED <<cache, artifact, upd, bld, mrg, bt, cn>>

PathNext == PathCall \/ PathWrite \/ PathRead

SpecPath == PathInit /\ [][PathNext]_vars

\* the key with each of / \ : * ? " < > | replaced by an underscore
Sanitized(key) ==
    [i \in 1..Len(key) |->
        IF key[i] \in {"/", "\\", ":", "*", "?", "\"", "<", ">", "|"} THEN "_" ELSE key[i]]

PathAsClaimed ==
    pth.pc # "idle" =>
        /\ pth.path = <<"raw_prices", pth.provider,
                        Sanitized(pth.key) \o <<".", "p", "a", "r", "q", "u", "e", "t">>>>
        /\ pth.provider \in dirs

\* a raw_cache_path call adds the provider directory and nothing else, and
\* leaves every cache file as it was
PathCallEffect ==
    pth'.pc = "called" => dirs' = dirs \cup {pth'.provider} /\ cache' = cache

(* C13: raw_cache_path(provider, key) is raw_prices/<provider>/<sanitized  *)
(* key>.parquet below the data directory, the sanitized key being the key  *)
(* with each of / \ : * ? " < > | replaced by an underscore and every      *)
(* other character unchanged; the call creates the provider directory      *)
(* when absent and creates or modifies no cache file.                      *)
C13_RawCachePath == []PathAsClaimed /\ [][PathCallEffect]_vars

\* the path of a key holding a replaced character was computed in a
\* directory that already existed, with a cache file present
C13_Witness ==
    /\ pth.pc = "called"
    /\ pth.key = KeyFx
    /\ pth.path = <<"raw_prices", "stooq", <<"e", "_", "u", ".", "p", "a", "r", "q", "u", "e", "t">>>>
    /\ cache[pth.path].exists

(* C14: cache keys do not collide: a read_cache for a (provider, key)      *)
(* returns the frame last written for that same (provider, key), and       *)
(* nothing when no write was made for it.                                  *)
C14_CacheKeysDoNotCollide ==
    (pth.pc = "read" /\ pth.got.ok) =>
        pth.got.df = (IF <<pth.provider, pth.key>> \in DOMAIN pth.last
                      THEN pth.last[<<pth.provider, pth.key>>]
                      ELSE None)

---------------------------------------------------------------------------
(* SpecMerge: merge_prices on drawn inputs, applied twice with the same    *)
(* fresh series.                                                           *)

\* what read_cache returns: None, or a sorted, date-unique frame
ExistingInputs ==
    {None} \cup {Frame(BaseCols, r) : r \in {s \in SeqsUpTo(Bars, MaxRows) : IsSortedUnique(s)}}

\* what a fetcher returns: rows in date order, every one with a close
FreshInputs ==
    {Frame(BaseCols, r) : r \in {s \in SeqsUpTo(Bars, MaxRows) : IsMonotonic(s)}}

MergeInit ==
    /\ CacheInit
    /\ bt = BtIdle
    /\ cn = CnIdle
    /\ pth = PthIdle
    /\ mrg \in [pc : {"drawn"}, existing : ExistingInputs, fresh : FreshInputs,
                m1 : {None}, m2 : {None}]

MergeOnce ==
    /\ mrg.pc = "drawn"
    /\ \E m \in merge_prices(mrg.existing, mrg.fresh) :
         mrg' = [mrg EXCEPT !.pc = "merged", !.m1 = m]
    /\ UNCHANGED <<cache, artifact, upd, bld, dirs, calls, bt, cn, pth>>

MergeAgain ==
    /\ mrg.pc = "merged"
    /\ \E m \in merge_prices(mrg.m1, mrg.fresh) :
         mrg' = [mrg EXCEPT !.pc = "remerged", !.m2 = m]
    /\ UNCHANGED <<cache, artifact, upd, bld, dirs, calls, bt, cn, pth>>

MergeNext == MergeOnce \/ MergeAgain

SpecMerge == MergeInit /\ [][MergeNext]_vars

\* the merge the contract describes: the dates of both, in order, one bar
\* per date, the bar of fresh (its last for the date) where fresh has one
LastAt(rows, d) == rows[CHOOSE i \in 1..Len(rows) : rows[i].date = d /\ \A j \in (i + 1)..Len(rows) : rows[j].date # d]

FreshBiasedUnion(existing, fresh) ==
    LET ds == SortedSeqOf(DatesOf(existing.rows) \cup DatesOf(fresh.rows))
    IN [n \in 1..Len(ds) |->
           IF ds[n] \in DatesOf(fresh.rows) THEN LastAt(fresh.rows, ds[n])
           ELSE LastAt(existing.rows, ds[n])]

(* C3: merge is idempotent under re-applying the same fresh series:        *)
(* merge(merge(e, f), f) = merge(e, f).                                    *)
C3_MergeIdempotent == mrg.pc = "remerged" => mrg.m2 = mrg.m1

(* C4: merge(existing, fresh) is the fresh-biased union by date.           *)
C4_MergeIsFreshBiasedUnion ==
    mrg.pc \in {"merged", "remerged"} => mrg.m1.rows = FreshBiasedUnion(mrg.existing, mrg.fresh)

---------------------------------------------------------------------------
(* Claims about the backtest (SpecBacktest)                                *)

EntryAt(curve, d) == CHOOSE e \in Range(curve) : e.date = d

CurveDates(curve) == {curve[n].date : n \in 1..Len(curve)}

(* C8: zeroing the weight row of date t changes the portfolio return only  *)
(* at the date that follows t on the price axis and leaves the equity      *)
(* value at every date <= t as it was.                                     *)
C8_NoLookahead ==
    bt.pc = "done" =>
        /\ CurveDates(bt.equity) = CurveDates(bt.equity_zeroed)
        /\ \A d \in CurveDates(bt.equity) :
               /\ d # bt.t + 1 => EntryAt(bt.equity, d).ret = EntryAt(bt.equity_zeroed, d).ret
               /\ d <= bt.t => EntryAt(bt.equity, d).value = EntryAt(bt.equity_zeroed, d).value

\* zeroing the row of t did change the return realised over t -> t+1
C8_Witness ==
    /\ bt.pc = "done"
    /\ bt.t + 1 \in CurveDates(bt.equity)
    /\ EntryAt(bt.equity, bt.t + 1).ret # EntryAt(bt.equity_zeroed, bt.t + 1).ret
    /\ EntryAt(bt.equity, bt.t + 1).value # EntryAt(bt.equity_zeroed, bt.t + 1).value

(* C9: the equity curve has no entry for the initial price date: for n     *)
(* price dates it has n - 1 entries, the first being 1 + the first         *)
(* realised portfolio return.                                              *)
C9_InitialDateDropped ==
    bt.pc = "done" =>
        /\ Len(bt.equity) = Cardinality(ClipDates(bt.start)) - 1
        /\ \A n \in 1..Len(bt.equity) : bt.equity[n].date # bt.start

====
